---- MODULE Spec2Model ----
(***************************************************************************)
(* Model of scripts/scripts.py: the PostgreSQLConnector administrative     *)
(* client, the WealthDataProcessor transformer and the __main__ entry      *)
(* sequence.                                                               *)
(*                                                                         *)
(* Strings are sequences of one-character strings, so that the regular     *)
(* expressions and str methods of clean_cols are computed character by     *)
(* character.                                                              *)
(***************************************************************************)
EXTENDS Integers, Sequences, FiniteSets, Bags, TLC

VARIABLES
    \* ---- clean_cols applied to a list of column headers
    columns,      \* the column headers clean_cols is first given
    dfIn,         \* df.columns on entry to the latest clean_cols call
    dfYear,       \* df.columns after the first select (year rule)
    dfClean,      \* df.columns after the second select (general pass)
    passes,       \* how many times clean_cols has been applied
    \* ---- WealthDataProcessor
    files,        \* what read_tables loads: [data, series, country]
    dfs,          \* what process_data returned, NotProcessed before
    \* ---- the database server
    catalog,      \* pg_database: the names of the databases that exist
    tables,       \* tables[db][t]: the table t of database db
    sessions,     \* every connection psycopg2.connect opened: [db, open]
    \* ---- PostgreSQLConnector
    connection,   \* self.connection: 0 for None, else an index of sessions
    cursor,       \* self.cursor: [conn, closed], conn = 0 for None
    \* ---- what the caller of the latest operation observed
    lastCall,     \* the operation and its arguments
    ret,          \* the value it returned
    raised,       \* the exception it raised, "none" when it returned
    printed,      \* the line it printed last, "" when it printed nothing
    ranOn,        \* the database its statement was executed against, or ""
    connectFailed,\* whether the latest connect attempt failed
    \* ---- __main__
    pc,           \* the next statement of the entry sequence
    run           \* which run of the entry sequence this is

colVars == <<columns, dfIn, dfYear, dfClean, passes>>

procVars == <<files, dfs>>

serverVars == <<catalog, tables, sessions>>

clientVars == <<connection, cursor>>

obsVars == <<lastCall, ret, raised, printed, ranOn, connectFailed>>

mainVars == <<pc, run>>

vars == <<colVars, procVars, serverVars, clientVars, obsVars, mainVars>>

\* --------------------------------------------------------------------------
\* Bounds of the model
\* --------------------------------------------------------------------------
MaxHeaderLen == 3

\* columns of the country file (the real file has about 30)
NumCountryCols == 6

\* connections the server accepts over the life of the model
MaxSessions == 3

\* runs of the entry sequence
MaxRuns == 2

\* --------------------------------------------------------------------------
\* Characters
\* --------------------------------------------------------------------------
Range(s) == {s[i] : i \in DOMAIN s}

UpperCase ==
    <<"A","B","C","D","E","F","G","H","I","J","K","L","M",
      "N","O","P","Q","R","S","T","U","V","W","X","Y","Z">>

LowerCase ==
    <<"a","b","c","d","e","f","g","h","i","j","k","l","m",
      "n","o","p","q","r","s","t","u","v","w","x","y","z">>

Digits == {"0","1","2","3","4","5","6","7","8","9"}

Whitespace == {" ", "\t", "\n", "\r", "\f"}

\* [a-zA-Z]
IsAlpha(c) == c \in Range(UpperCase) \cup Range(LowerCase)

\* \d
IsDigit(c) == c \in Digits

\* str.lower() on one character
LowerChar(c) ==
    IF c \in Range(UpperCase)
    THEN LowerCase[CHOOSE i \in DOMAIN UpperCase : UpperCase[i] = c]
    ELSE c

\* str.lower()
Lower(s) == [i \in DOMAIN s |-> LowerChar(s[i])]

\* str.replace(old, new) for one-character old and new
Replace(s, old, new) == [i \in DOMAIN s |-> IF s[i] = old THEN new ELSE s[i]]

\* "_".join(column.split(" ")): split on every single space keeps the empty
\* pieces, so joining with "_" puts one underscore where each space was
JoinSplit(s) == Replace(s, " ", "_")

\* number of leading characters of s that are not letters
RECURSIVE LeadingNonAlpha(_)
LeadingNonAlpha(s) ==
    IF s = <<>> \/ IsAlpha(Head(s)) THEN 0 ELSE 1 + LeadingNonAlpha(Tail(s))

\* the substitution without its "+": one leading character at most goes
StripLeadingOne(s) == IF s = <<>> \/ IsAlpha(Head(s)) THEN s ELSE Tail(s)

\* re.sub(r"^[^a-zA-Z]+", "", s)
StripLeadingNonAlpha(s) == SubSeq(s, LeadingNonAlpha(s) + 1, Len(s))

RECURSIVE LStrip(_)
LStrip(s) == IF s # <<>> /\ Head(s) \in Whitespace THEN LStrip(Tail(s)) ELSE s

RECURSIVE RStrip(_)
RStrip(s) ==
    IF s # <<>> /\ s[Len(s)] \in Whitespace
    THEN RStrip(SubSeq(s, 1, Len(s) - 1))
    ELSE s

\* str.strip()
Strip(s) == LStrip(RStrip(s))

\* --------------------------------------------------------------------------
\* clean_cols
\* --------------------------------------------------------------------------
YearDigits == 4

\* length of "(\d{4}) \[YR\1\]": digits, " [YR", digits, "]"
YearPatternLen == YearDigits + 4 + YearDigits + 1

\* the characters of s at the pattern's positions are dddd [YRdddd] with the
\* second group of digits equal to the first (the backreference \1)
YearPrefix(s) ==
    /\ Len(s) >= YearPatternLen
    /\ \A i \in 1..YearDigits : IsDigit(s[i])
    /\ SubSeq(s, YearDigits + 1, YearDigits + 4) = <<" ", "[", "Y", "R">>
    /\ SubSeq(s, YearDigits + 5, 2 * YearDigits + 4) = SubSeq(s, 1, YearDigits)
    /\ s[YearPatternLen] = "]"

\* re matches r"^(\d{4}) \[YR\1\]$": without re.MULTILINE ^ is the start of
\* the string and $ is the end of the string or the position just before a
\* newline that ends the string
YearMatchEnd(s) ==
    \/ Len(s) = YearPatternLen
    \/ Len(s) = YearPatternLen + 1 /\ s[Len(s)] = "\n"

YearMatch(s) == YearPrefix(s) /\ YearMatchEnd(s)

\* re.sub(r"^(\d{4}) \[YR\1\]$", r"year_\1", col): the matched span is
\* replaced, what follows it (the final newline, if any) is kept
YearRule(s) ==
    IF YearMatch(s)
    THEN <<"y","e","a","r","_">> \o SubSeq(s, 1, YearDigits)
                                 \o SubSeq(s, YearPatternLen + 1, Len(s))
    ELSE s

\* re.sub(r"^[^a-zA-Z]+", "", "_".join(column.split(" ")).lower())
\*     .replace("-", "_").strip()
GeneralRule(s) ==
    Strip(Replace(StripLeadingNonAlpha(Lower(JoinSplit(s))), "-", "_"))

\* first select of clean_cols, on the list of column names
YearSelect(cols) == [i \in DOMAIN cols |-> YearRule(cols[i])]

\* second select of clean_cols
GeneralSelect(cols) == [i \in DOMAIN cols |-> GeneralRule(cols[i])]

\* the column names of clean_cols(df)
clean_cols(cols) == GeneralSelect(YearSelect(cols))

\* --------------------------------------------------------------------------
\* Headers the column specification starts from
\* --------------------------------------------------------------------------
HeaderAlphabet == {"1", "9", "a", "Y", "R", " ", "-", "_", "[", "]", "\n"}

SeqsUpTo(S, n) == UNION {[1..k -> S] : k \in 0..n}

ShortHeaders == SeqsUpTo(HeaderAlphabet, MaxHeaderLen)

DigitGroups == [1..YearDigits -> {"1", "9"}]

HeaderPrefixes == {<<>>, <<" ">>}

HeaderSuffixes == {<<>>, <<"\n">>, <<" ">>, <<"\n", "\n">>, <<"9">>}

\* headers around the year form: two digit groups, equal or not, with and
\* without something before or after
YearLikeHeaders ==
    {p \o d1 \o <<" ", "[", "Y", "R">> \o d2 \o <<"]">> \o t :
        p \in HeaderPrefixes, d1 \in DigitGroups, d2 \in DigitGroups,
        t \in HeaderSuffixes}

Headers == ShortHeaders \cup YearLikeHeaders

OneCharHeaders == SeqsUpTo(HeaderAlphabet, 1)

ColumnLists ==
    {<<h>> : h \in Headers} \cup {<<g, h>> : g \in OneCharHeaders, h \in OneCharHeaders}

\* --------------------------------------------------------------------------
\* DataFrames: [columns |-> list of names, rows |-> list of rows], a row a
\* list of fields in column order. A field is SQL NULL, a floating-point NaN
\* (of a column inferSchema typed double), or a value carrying its text.
\* --------------------------------------------------------------------------
Null == [kind |-> "null", v |-> <<>>]

NaN == [kind |-> "nan", v |-> <<>>]

Str(s) == [kind |-> "str", v |-> s]

\* decimal digits of a natural number
RECURSIVE Decimal(_)
Decimal(n) ==
    LET d == <<"0","1","2","3","4","5","6","7","8","9">>[(n % 10) + 1]
    IN IF n < 10 THEN <<d>> ELSE Decimal(n \div 10) \o <<d>>

Long(n) == [kind |-> "long", v |-> Decimal(n)]

\* position of column name in df.columns, 0 when there is none
ColIndex(cols, name) ==
    IF \E i \in DOMAIN cols : cols[i] = name
    THEN CHOOSE i \in DOMAIN cols : cols[i] = name /\ \A j \in 1..(i - 1) : cols[j] # name
    ELSE 0

\* df.withColumn(name, col), values[i] the value of col in row i: replaces
\* the column of that name, or appends a new last column
WithColumn(df, name, values) ==
    LET k == ColIndex(df.columns, name)
    IN IF k = 0
       THEN [columns |-> Append(df.columns, name),
             rows |-> [i \in DOMAIN df.rows |-> Append(df.rows[i], values[i])]]
       ELSE [columns |-> df.columns,
             rows |-> [i \in DOMAIN df.rows |-> [df.rows[i] EXCEPT ![k] = values[i]]]]

RECURSIVE LTrimSpaces(_)
LTrimSpaces(s) == IF s # <<>> /\ Head(s) = " " THEN LTrimSpaces(Tail(s)) ELSE s

RECURSIVE RTrimSpaces(_)
RTrimSpaces(s) ==
    IF s # <<>> /\ s[Len(s)] = " "
    THEN RTrimSpaces(SubSeq(s, 1, Len(s) - 1))
    ELSE s

\* F.trim: NULL stays NULL, the space characters at both ends of a string go
Trim(f) ==
    CASE f.kind = "null" -> Null
      [] f.kind = "nan" -> Str(<<"N", "a", "N">>)
      [] OTHER -> Str(LTrimSpaces(RTrimSpaces(f.v)))

\* withColumn(name, F.trim(F.col(name)))
TrimColumn(df, name) ==
    LET k == ColIndex(df.columns, name)
    IN WithColumn(df, name, [i \in DOMAIN df.rows |-> Trim(df.rows[i][k])])

\* F.monotonically_increasing_id() of a frame held in one partition: the
\* partition index (0) in the upper bits, the row's position in the lower
WithId(df) == WithColumn(df, <<"i", "d">>, [i \in DOMAIN df.rows |-> Long(i - 1)])

\* the fields dropna counts: not NULL and, in a float or double column, not NaN
Counted(f) == f.kind \notin {"null", "nan"}

\* how many fields of a row dropna counts
NumCounted(row) == Cardinality({i \in DOMAIN row : Counted(row[i])})

DropnaThresh == 5

\* dropna with the threshold off by one
KeepRowOffByOne(row) == NumCounted(row) > DropnaThresh

\* the row test of df.dropna(thresh=5)
KeepRow(row) == NumCounted(row) >= DropnaThresh

\* df.dropna(thresh=5)
Dropna(df) == [columns |-> df.columns, rows |-> SelectSeq(df.rows, KeepRow)]

\* clean_cols on a frame: the columns are renamed, the rows are untouched
CleanFrame(df) == [columns |-> clean_cols(df.columns), rows |-> df.rows]

CODE == <<"c", "o", "d", "e">>

SERIES_CODE == <<"s","e","r","i","e","s","_","c","o","d","e">>

COUNTRY_CODE == <<"c","o","u","n","t","r","y","_","c","o","d","e">>

\* process_data on what read_tables loaded
process_data(f) ==
    [data |-> TrimColumn(TrimColumn(WithId(CleanFrame(f.data)), SERIES_CODE),
                         COUNTRY_CODE),
     series |-> TrimColumn(CleanFrame(f.series), CODE),
     country |-> Dropna(TrimColumn(CleanFrame(f.country), CODE))]

EmptyFrame == [columns |-> <<>>, rows |-> <<>>]

NotProcessed == [data |-> EmptyFrame, series |-> EmptyFrame, country |-> EmptyFrame]

NoFiles == [data |-> EmptyFrame, series |-> EmptyFrame, country |-> EmptyFrame]

ProcIdle == files = NoFiles /\ dfs = NotProcessed

ColsIdle ==
    /\ columns = <<>>
    /\ dfIn = <<>>
    /\ dfYear = <<>>
    /\ dfClean = <<>>
    /\ passes = 0

\* --------------------------------------------------------------------------
\* The database server, as far as the statements of the program go
\* --------------------------------------------------------------------------
DbNames == {"postgres", "moeindb"}

TableNames == {"account_country", "account_series", "account_data"}

\* a (col_name, data_type) pair of a column list: the type is kept as what
\* the server does with it, PRIMARY KEY and REFERENCES <table>(code)
Col(name, pk, ref) == [name |-> name, pk |-> pk, ref |-> ref]

NoTable == [exists |-> FALSE, cols |-> <<>>, rows |-> <<>>]

NoTables == [d \in DbNames |-> [t \in TableNames |-> NoTable]]

\* the statements the program builds
SelectDb(n) == [op |-> "select_db", name |-> n, cols |-> <<>>]

CreateDb(n) == [op |-> "create_db", name |-> n, cols |-> <<>>]

DropTable(t) == [op |-> "drop_table", name |-> t, cols |-> <<>>]

CreateTable(t, cols) == [op |-> "create_table", name |-> t, cols |-> cols]

NoStmt == [op |-> "", name |-> "", cols |-> <<>>]

\* a table after the table named gone is dropped with CASCADE: the
\* foreign keys that referenced it are removed, the table and its rows stay
Unreference(tab, gone) ==
    [tab EXCEPT !.cols = [i \in DOMAIN tab.cols |->
        IF tab.cols[i].ref = gone THEN [tab.cols[i] EXCEPT !.ref = ""] ELSE tab.cols[i]]]

HasKey(tab, name) ==
    tab.exists /\ \E i \in DOMAIN tab.cols : tab.cols[i].name = name /\ tab.cols[i].pk

\* the server's answer to statement q on a connection to database db:
\* whether it succeeded, the result set if it has one, and the new state
Execute(db, q) ==
    LET same == [ok |-> TRUE, hasRows |-> FALSE, rows |-> <<>>,
                 catalog |-> catalog, tables |-> tables]
        error == [same EXCEPT !.ok = FALSE]
    IN CASE q.op = "select_db" ->
              [same EXCEPT !.hasRows = TRUE,
                           !.rows = IF q.name \in catalog THEN << <<1>> >> ELSE <<>>]
         [] q.op = "create_db" ->
              IF q.name \in catalog THEN error
              ELSE [same EXCEPT !.catalog = catalog \cup {q.name}]
         [] q.op = "drop_table" ->
              IF ~tables[db][q.name].exists THEN same
              ELSE [same EXCEPT !.tables = [tables EXCEPT ![db] =
                      [t \in TableNames |->
                          IF t = q.name THEN NoTable
                          ELSE Unreference(tables[db][t], q.name)]]]
         [] q.op = "create_table" ->
              IF tables[db][q.name].exists THEN same
              ELSE IF \E i \in DOMAIN q.cols :
                          /\ q.cols[i].ref # ""
                          /\ ~HasKey(tables[db][q.cols[i].ref], CODE)
                   THEN error
                   ELSE [same EXCEPT !.tables = [tables EXCEPT ![db][q.name] =
                           [exists |-> TRUE, cols |-> q.cols, rows |-> <<>>]]]
         [] OTHER -> error

\* --------------------------------------------------------------------------
\* PostgreSQLConnector
\* --------------------------------------------------------------------------
NoCursor == [conn |-> 0, closed |-> FALSE]

PyNone == [kind |-> "None", rows |-> <<>>, b |-> FALSE]

PyList(rows) == [kind |-> "list", rows |-> rows, b |-> FALSE]

PyBool(b) == [kind |-> "bool", rows |-> <<>>, b |-> b]

\* bool(result) of a value execute_query returns
Truthy(r) == r.kind = "list" /\ r.rows # <<>>

\* psycopg2 closes a connection when the connection object is deallocated,
\* and the interpreter deallocates an object when its last reference goes.
\* Rebinding self.connection (line 28) and self.cursor (line 36) drops the
\* client's references to the earlier connection and to its cursor: the
\* sessions that neither self.connection nor the cursor's connection name
\* are closed.
Release(ss, conn, cur) ==
    [i \in DOMAIN ss |->
        IF i # conn /\ i # cur.conn THEN [ss[i] EXCEPT !.open = FALSE] ELSE ss[i]]

\* connect with line 36 lost: the cursor of the earlier connection is kept
ConnectCursorStale(id) == cursor

\* self.cursor = self.connection.cursor()
ConnectCursor(id) == [conn |-> id, closed |-> FALSE]

Call(op, q, fetch) == [op |-> op, q |-> q, fetch |-> fetch]

\* connect(db_name): psycopg2.connect succeeds only for a database that
\* exists, and may fail for one that does (server unreachable, credentials,
\* connection limit). On success connection and cursor are rebound; on
\* failure the except branch prints and nothing else changes.
ConnectOutcome(db_name, accepted) ==
    IF accepted /\ db_name \in catalog /\ Len(sessions) < MaxSessions
    THEN LET id == Len(sessions) + 1
             cur == ConnectCursor(id)
         IN [ok |-> TRUE, connection |-> id, cursor |-> cur,
             sessions |-> Release(Append(sessions, [db |-> db_name, open |-> TRUE]),
                                  id, cur)]
    ELSE [ok |-> FALSE, connection |-> connection, cursor |-> cursor,
          sessions |-> sessions]

connect(db_name, accepted) ==
    LET o == ConnectOutcome(db_name, accepted)
    IN /\ connection' = o.connection
       /\ cursor' = o.cursor
       /\ sessions' = o.sessions
       /\ printed' = IF o.ok THEN "Connected" ELSE "Error connecting"
       /\ connectFailed' = ~o.ok
       /\ ret' = PyNone
       /\ raised' = "none"
       /\ ranOn' = ""
       /\ UNCHANGED <<catalog, tables>>

\* an except branch that returns an empty list instead of None
QueryErrorAsEmpty == PyList(<<>>)

\* return None of the except branch
QueryError == PyNone

\* execute_query(query, fetch), as what it does to the caller and the server.
\* self.cursor is None: the attribute lookup raises AttributeError, which
\* except psycopg2.Error does not catch. A closed cursor, a closed
\* connection, a statement the server rejects and fetchall() after a
\* statement without a result set are psycopg2 errors: printed, None.
ExecuteQuery(query, fetch) ==
    LET same == [raised |-> "none", ret |-> PyNone, printed |-> "", ranOn |-> "",
                 catalog |-> catalog, tables |-> tables]
        failed == [same EXCEPT !.ret = QueryError, !.printed = "Error executing"]
    IN IF cursor.conn = 0
       THEN [same EXCEPT !.raised = "AttributeError"]
       ELSE IF cursor.closed \/ ~sessions[cursor.conn].open
       THEN failed
       ELSE LET db == sessions[cursor.conn].db
                a == Execute(db, query)
                sent == [same EXCEPT !.ranOn = db, !.catalog = a.catalog,
                                     !.tables = a.tables]
            IN IF ~a.ok
               THEN [failed EXCEPT !.ranOn = db]
               ELSE IF ~fetch THEN sent
               ELSE IF ~a.hasRows
               THEN [sent EXCEPT !.ret = QueryError, !.printed = "Error executing"]
               ELSE [sent EXCEPT !.ret = PyList(a.rows)]

\* the caller's view and the server after an operation that ran one query
Apply(o, value) ==
    /\ raised' = o.raised
    /\ ret' = IF o.raised = "none" THEN value ELSE PyNone
    /\ printed' = o.printed
    /\ ranOn' = o.ranOn
    /\ catalog' = o.catalog
    /\ tables' = o.tables
    /\ UNCHANGED <<sessions, connection, cursor, connectFailed>>

execute_query(query, fetch) ==
    LET o == ExecuteQuery(query, fetch)
    IN /\ lastCall' = Call("execute_query", query, fetch)
       /\ Apply(o, o.ret)

\* return bool(result)
check_database_exists(db_name) ==
    LET o == ExecuteQuery(SelectDb(db_name), TRUE)
    IN /\ lastCall' = Call("check_database_exists", SelectDb(db_name), TRUE)
       /\ Apply(o, PyBool(Truthy(o.ret)))

switch_database(new_dbname, accepted) ==
    /\ lastCall' = Call("switch_database", [NoStmt EXCEPT !.name = new_dbname], FALSE)
    /\ connect(new_dbname, accepted)

create_table(table_name, cols) ==
    /\ lastCall' = Call("create_table", CreateTable(table_name, cols), FALSE)
    /\ IF cols = <<>>
       THEN /\ printed' = "No columns specified"
            /\ ret' = PyNone
            /\ raised' = "none"
            /\ ranOn' = ""
            /\ UNCHANGED <<serverVars, clientVars, connectFailed>>
       ELSE Apply(ExecuteQuery(CreateTable(table_name, cols), FALSE), PyNone)

\* close(): the cursor, then the connection, each if set
close ==
    /\ lastCall' = Call("close", NoStmt, FALSE)
    /\ cursor' = IF cursor.conn # 0 THEN [cursor EXCEPT !.closed = TRUE] ELSE cursor
    /\ sessions' = IF connection # 0
                   THEN [sessions EXCEPT ![connection].open = FALSE]
                   ELSE sessions
    /\ printed' = IF connection # 0 THEN "Connection closed" ELSE ""
    /\ ret' = PyNone
    /\ raised' = "none"
    /\ ranOn' = ""
    /\ UNCHANGED <<catalog, tables, connection, connectFailed>>

\* --------------------------------------------------------------------------
\* Input files
\* --------------------------------------------------------------------------
X == Str(<<"x">>)

CountryHeader(i) == IF i = 1 THEN <<"C", "o", "d", "e">> ELSE <<"F">> \o Decimal(i)

CountryColumns == [i \in 1..NumCountryCols |-> CountryHeader(i)]

SeriesColumns == << <<"C", "o", "d", "e">>, <<"T", "o", "p", "i", "c">> >>

DataColumns ==
    << <<"C","o","u","n","t","r","y"," ","C","o","d","e">>,
       <<"S","e","r","i","e","s"," ","C","o","d","e">>,
       <<"1","9","9","5"," ","[","Y","R","1","9","9","5","]">> >>

\* a country row with code c whose first n fields (the code included) are
\* present and whose other fields are NULL
CountryRow(c, n) == [i \in 1..NumCountryCols |-> IF i = 1 THEN c ELSE IF i <= n THEN X ELSE Null]

CodeA == <<"A">>

CodeB == <<"B">>

CodeS1 == <<"S", "1">>

CodeS2 == <<"S", "2">>

\* any country row: the code NULL or text, every other field NULL, NaN or text
CountryRows ==
    {r \in [1..NumCountryCols -> {Null, NaN, X, Str(<<" ">> \o CodeB \o <<" ">>)}] :
        /\ r[1] \in {Null, Str(<<" ">> \o CodeB \o <<" ">>)}
        /\ \A i \in 2..NumCountryCols : r[i] \in {Null, NaN, X}}

DataRows == [1..3 -> {Null, X}]

SeriesRows == [1..2 -> {Null, X}]

SampleSeries(extra) ==
    [columns |-> SeriesColumns,
     rows |-> << <<Str(CodeS1 \o <<" ">>), X>>, <<Str(CodeS2), Null>> >> \o extra]

SampleData(extra) ==
    [columns |-> DataColumns,
     rows |-> << <<Str(<<" ">> \o CodeA), Str(CodeS1 \o <<" ">>), X>>,
                 <<Str(CodeA), Str(CodeS2), Null>>,
                 <<Str(CodeB), Str(CodeS1), X>> >> \o extra]

\* the country file: a complete row for A, then the given rows
SampleCountry(more) ==
    [columns |-> CountryColumns,
     rows |-> <<CountryRow(Str(CodeA), NumCountryCols)>> \o more]

\* --------------------------------------------------------------------------
\* write_to_postgres
\* --------------------------------------------------------------------------
ProcessorDb == "moeindb"

\* the rows of df laid out in the columns of an existing table: a column the
\* frame does not have is left NULL
TableRows(tab, df) ==
    [i \in DOMAIN df.rows |->
        [k \in DOMAIN tab.cols |->
            LET j == ColIndex(df.columns, tab.cols[k].name)
            IN IF j = 0 THEN Null ELSE df.rows[i][j]]]

ColumnValues(tab, name) ==
    LET k == CHOOSE k \in DOMAIN tab.cols : tab.cols[k].name = name
    IN {tab.rows[i][k] : i \in DOMAIN tab.rows}

\* whether the server accepts rows all placed in table tab of database db:
\* primary keys present and distinct, foreign keys NULL or present in the
\* code column of the table referenced
Accepts(db, tab, all) ==
    \A k \in DOMAIN tab.cols :
        /\ tab.cols[k].pk =>
              /\ \A i \in DOMAIN all : all[i][k] # Null
              /\ \A i, j \in DOMAIN all : i # j => all[i][k] # all[j][k]
        /\ tab.cols[k].ref # "" =>
              \A i \in DOMAIN all :
                  \/ all[i][k] = Null
                  \/ all[i][k] \in ColumnValues(tables[db][tab.cols[k].ref], CODE)

\* df.write.format("jdbc")...mode("append").save() over the processor's own
\* connection to db_name. A table that is not there is created from the
\* frame's columns, without keys; rows go into an existing table only if the
\* frame's columns are columns of the table and the constraints hold. The
\* write is taken in one piece; a failure is an exception of the job.
WriteOutcome(df, table_name) ==
    LET db == ProcessorDb
        tab == tables[db][table_name]
        same == [raised |-> "none", tables |-> tables]
        fail == [same EXCEPT !.raised = "Py4JJavaError"]
    IN IF db \notin catalog THEN fail
       ELSE IF ~tab.exists
       THEN [same EXCEPT !.tables = [tables EXCEPT ![db][table_name] =
               [exists |-> TRUE,
                cols |-> [i \in DOMAIN df.columns |-> Col(df.columns[i], FALSE, "")],
                rows |-> df.rows]]]
       ELSE IF \E i \in DOMAIN df.columns :
                   \A k \in DOMAIN tab.cols : tab.cols[k].name # df.columns[i]
       THEN fail
       ELSE LET all == tab.rows \o TableRows(tab, df)
            IN IF Accepts(db, tab, all)
               THEN [same EXCEPT !.tables = [tables EXCEPT ![db][table_name].rows = all]]
               ELSE fail

write_to_postgres(df, table_name) ==
    LET o == WriteOutcome(df, table_name)
    IN /\ lastCall' = Call("write_to_postgres", [NoStmt EXCEPT !.name = table_name], FALSE)
       /\ raised' = o.raised
       /\ tables' = o.tables
       /\ ret' = PyNone
       /\ printed' = ""
       /\ ranOn' = ""
       /\ UNCHANGED <<catalog, sessions, clientVars, connectFailed>>

\* --------------------------------------------------------------------------
\* The column lists of __main__, for the columns the input files have
\* --------------------------------------------------------------------------
ID == <<"i", "d">>

account_country_columns ==
    [i \in 1..NumCountryCols |->
        IF i = 1 THEN Col(CODE, TRUE, "") ELSE Col(<<"f">> \o Decimal(i), FALSE, "")]

account_series_columns ==
    <<Col(CODE, TRUE, ""), Col(<<"t", "o", "p", "i", "c">>, FALSE, "")>>

account_data_columns ==
    <<Col(ID, TRUE, ""),
      Col(COUNTRY_CODE, FALSE, "account_country"),
      Col(SERIES_CODE, FALSE, "account_series"),
      Col(<<"y","e","a","r","_","1","9","9","5">>, FALSE, "")>>

\* --------------------------------------------------------------------------
\* Spec: the client after construction, under any sequence of operations
\* --------------------------------------------------------------------------
NoCall == Call("", NoStmt, FALSE)

ObsIdle ==
    /\ lastCall = NoCall
    /\ ret = PyNone
    /\ raised = "none"
    /\ printed = ""
    /\ ranOn = ""
    /\ connectFailed = FALSE

ServerIdle == catalog = {"postgres"} /\ tables = NoTables /\ sessions = <<>>

ClientIdle == connection = 0 /\ cursor = NoCursor

MainIdle == pc = "" /\ run = 0

\* __init__: both attributes None, then connect() to postgres, which
\* succeeded or failed
Init ==
    /\ catalog \in {{"postgres"}, DbNames}
    /\ tables = NoTables
    /\ \/ /\ sessions = <<[db |-> "postgres", open |-> TRUE]>>
          /\ connection = 1
          /\ cursor = [conn |-> 1, closed |-> FALSE]
          /\ printed = "Connected"
          /\ connectFailed = FALSE
       \/ /\ sessions = <<>>
          /\ connection = 0
          /\ cursor = NoCursor
          /\ printed = "Error connecting"
          /\ connectFailed = TRUE
    /\ lastCall = Call("connect", [NoStmt EXCEPT !.name = "postgres"], FALSE)
    /\ ret = PyNone
    /\ raised = "none"
    /\ ranOn = ""
    /\ MainIdle
    /\ ProcIdle
    /\ ColsIdle

Queries ==
    {SelectDb(n) : n \in DbNames} \cup {CreateDb(n) : n \in DbNames}
    \cup {DropTable("account_series"),
          CreateTable("account_series", account_series_columns)}

Idle == UNCHANGED <<mainVars, procVars, colVars>>

ExecuteQueryOp == \E q \in Queries, fetch \in BOOLEAN : execute_query(q, fetch) /\ Idle

CheckDatabaseExistsOp == \E n \in DbNames : check_database_exists(n) /\ Idle

SwitchDatabaseOp ==
    \E n \in DbNames, accepted \in BOOLEAN : switch_database(n, accepted) /\ Idle

CreateTableOp ==
    \E cols \in {<<>>, account_series_columns} :
        create_table("account_series", cols) /\ Idle

CloseOp == close /\ Idle

Next ==
    \/ ExecuteQueryOp
    \/ CheckDatabaseExistsOp
    \/ SwitchDatabaseOp
    \/ CreateTableOp
    \/ CloseOp

Spec == Init /\ [][Next]_vars

\* --------------------------------------------------------------------------
\* SpecMain: the entry sequence, statement by statement, run and run again
\* on the same files against the same server
\* --------------------------------------------------------------------------
Target == "moeindb"

\* the country file's second row has its first n fields present
MainFiles ==
    {[data |-> SampleData(<<>>),
      series |-> SampleSeries(<<>>),
      country |-> SampleCountry(<<CountryRow(Str(<<" ">> \o CodeB), n)>>)] :
        n \in 1..NumCountryCols}

InitMain ==
    /\ ServerIdle
    /\ ClientIdle
    /\ ObsIdle
    /\ pc = "construct"
    /\ run = 1
    /\ files \in MainFiles
    /\ dfs = NotProcessed
    /\ ColsIdle

\* an exception that reaches the top level ends the run
Goto(to) == pc' = IF raised' = "none" THEN to ELSE "crashed"

Rest == UNCHANGED <<run, files, dfs, colVars>>

\* connector = PostgreSQLConnector(user=user, password=password)
Construct ==
    /\ pc = "construct"
    /\ \E accepted \in BOOLEAN : connect("postgres", accepted)
    /\ lastCall' = Call("connect", [NoStmt EXCEPT !.name = "postgres"], FALSE)
    /\ Goto("check")
    /\ Rest

\* if not connector.check_database_exists(db_name=db_name):
CheckDb ==
    /\ pc = "check"
    /\ check_database_exists(Target)
    /\ pc' = IF raised' # "none" THEN "crashed"
             ELSE IF ret'.b THEN "switch" ELSE "create_db"
    /\ Rest

\* connector.execute_query(query=f"CREATE DATABASE {db_name}")
CreateDatabase ==
    /\ pc = "create_db"
    /\ execute_query(CreateDb(Target), FALSE)
    /\ Goto("switch")
    /\ Rest

\* connector.switch_database(new_dbname="moeindb")
Switch ==
    /\ pc = "switch"
    /\ \E accepted \in BOOLEAN : switch_database(Target, accepted)
    /\ Goto("drop_country")
    /\ Rest

Query(at, q, to) ==
    /\ pc = at
    /\ execute_query(q, FALSE)
    /\ Goto(to)
    /\ Rest

DropCountry == Query("drop_country", DropTable("account_country"), "drop_data")

DropData == Query("drop_data", DropTable("account_data"), "drop_series")

DropSeries == Query("drop_series", DropTable("account_series"), "create_country")

Create(at, t, cols, to) ==
    /\ pc = at
    /\ create_table(t, cols)
    /\ Goto(to)
    /\ Rest

CreateCountry ==
    Create("create_country", "account_country", account_country_columns, "create_series")

CreateSeries ==
    Create("create_series", "account_series", account_series_columns, "create_data")

CreateData == Create("create_data", "account_data", account_data_columns, "process")

\* df_account_data, df_account_series, df_account_country = obj.process_data()
Process ==
    /\ pc = "process"
    /\ dfs' = process_data(files)
    /\ pc' = "write_series"
    /\ UNCHANGED <<run, files, colVars, serverVars, clientVars, obsVars>>

Write(at, df, t, to) ==
    /\ pc = at
    /\ write_to_postgres(df, t)
    /\ Goto(to)
    /\ Rest

WriteSeries == Write("write_series", dfs.series, "account_series", "write_country")

WriteCountry == Write("write_country", dfs.country, "account_country", "write_data")

WriteData == Write("write_data", dfs.data, "account_data", "close")

\* connector.close()
Close ==
    /\ pc = "close"
    /\ close
    /\ Goto("done")
    /\ Rest

\* the script is started again: the old process is gone and with it its
\* connections; the server keeps its databases and tables
Rerun ==
    /\ pc \in {"done", "crashed"}
    /\ run < MaxRuns
    /\ run' = run + 1
    /\ pc' = "construct"
    /\ sessions' = <<>>
    /\ connection' = 0
    /\ cursor' = NoCursor
    /\ lastCall' = NoCall
    /\ ret' = PyNone
    /\ raised' = "none"
    /\ printed' = ""
    /\ ranOn' = ""
    /\ connectFailed' = FALSE
    /\ dfs' = NotProcessed
    /\ UNCHANGED <<catalog, tables, files, colVars>>

NextMain ==
    \/ Construct
    \/ CheckDb
    \/ CreateDatabase
    \/ Switch
    \/ DropCountry
    \/ DropData
    \/ DropSeries
    \/ CreateCountry
    \/ CreateSeries
    \/ CreateData
    \/ Process
    \/ WriteSeries
    \/ WriteCountry
    \/ WriteData
    \/ Close
    \/ Rerun

SpecMain == InitMain /\ [][NextMain]_vars

\* --------------------------------------------------------------------------
\* SpecRows: process_data on files whose rows vary
\* --------------------------------------------------------------------------
InitRows ==
    /\ \E c \in CountryRows, d \in DataRows, r \in SeriesRows :
          files = [data |-> SampleData(<<d>>),
                   series |-> SampleSeries(<<r>>),
                   country |-> SampleCountry(<<c, CountryRow(Str(<<"C">>), 3)>>)]
    /\ dfs = NotProcessed
    /\ ColsIdle
    /\ ServerIdle /\ ClientIdle /\ ObsIdle /\ MainIdle

ProcessData ==
    /\ dfs = NotProcessed
    /\ dfs' = process_data(files)
    /\ UNCHANGED <<files, colVars, serverVars, clientVars, obsVars, mainVars>>

NextRows == ProcessData

SpecRows == InitRows /\ [][NextRows]_vars

\* --------------------------------------------------------------------------
\* SpecCols: clean_cols applied, and applied again to its own result
\* --------------------------------------------------------------------------
InitCols ==
    /\ columns \in ColumnLists
    /\ dfIn = <<>>
    /\ dfYear = <<>>
    /\ dfClean = <<>>
    /\ passes = 0
    /\ ProcIdle
    /\ ServerIdle /\ ClientIdle /\ ObsIdle /\ MainIdle

\* clean_cols(df) on the headers as read
CleanCols ==
    /\ passes = 0
    /\ dfIn' = columns
    /\ dfYear' = YearSelect(columns)
    /\ dfClean' = clean_cols(columns)
    /\ passes' = 1
    /\ UNCHANGED <<columns, procVars, serverVars, clientVars, obsVars, mainVars>>

\* clean_cols(clean_cols(df)): the cleaned names are cleaned again
CleanColsAgain ==
    /\ passes = 1
    /\ dfIn' = dfClean
    /\ dfYear' = YearSelect(dfClean)
    /\ dfClean' = clean_cols(dfClean)
    /\ passes' = 2
    /\ UNCHANGED <<columns, procVars, serverVars, clientVars, obsVars, mainVars>>

NextCols == CleanCols \/ CleanColsAgain

SpecCols == InitCols /\ [][NextCols]_vars

\* ==========================================================================
\* Claims
\* ==========================================================================

ClientOps ==
    {"execute_query", "check_database_exists", "switch_database", "create_table", "close"}

C2_NoStatementAfterFailedConnect ==
    (connectFailed /\ lastCall.op \in {"execute_query", "create_table"}) => ranOn = ""

\* C3: the only connection the client opened that is still open is the one it
\* holds, and after close() none is open.
C3_SingleConnection ==
    /\ \A i \in DOMAIN sessions : sessions[i].open => i = connection
    /\ lastCall.op = "close" => \A i \in DOMAIN sessions : ~sessions[i].open

\* C3 witness: after a second successful connect the first connection is
\* closed and the second, which the client holds, is open.
C3_Witness ==
    /\ lastCall.op = "switch_database"
    /\ Len(sessions) >= 2
    /\ connection = Len(sessions)
    /\ sessions[connection].open
    /\ ~sessions[1].open

\* the rows the catalog lookup of q matches
CatalogRows(q) == IF q.op = "select_db" /\ q.name \in catalog THEN << <<1>> >> ELSE <<>>

Fetched == lastCall.op = "execute_query" /\ lastCall.fetch /\ raised = "none"

QueryFailed == printed = "Error executing"

\* C4 as stated: execute_query(sql, fetch=true) returns all result rows on
\* success, and on a driver error what a successful query that matched no
\* rows returns.
C4_FailedLikeEmpty ==
    Fetched => ret = IF QueryFailed THEN PyList(<<>>) ELSE PyList(CatalogRows(lastCall.q))

\* C4 amended: execute_query(sql, fetch=true), when it returns, returns the
\* list of all result rows on success (the empty list when none matched) and
\* None on a driver error.
C4_NoneOnError ==
    Fetched => ret = IF QueryFailed THEN PyNone ELSE PyList(CatalogRows(lastCall.q))

\* C4 witness: a fetching query failed on a closed cursor and returned None.
C4_Witness == Fetched /\ QueryFailed /\ cursor.closed /\ ret = PyNone

\* C5: check_database_exists(name) returns true exactly when a database of
\* that name is in the server's catalog.
C5_ExistsIffPresent ==
    (lastCall.op = "check_database_exists" /\ raised = "none")
        => ret = PyBool(lastCall.q.name \in catalog)

\* table t of the target database holds the rows of frame df, once each
HoldsFrame(t, df) ==
    LET tab == tables[Target][t]
    IN tab.exists /\ tab.rows = TableRows(tab, df)

\* C6: after the entry sequence has run a second time on the same files,
\* each of the three tables holds exactly the rows of one transform.
C6_RerunSameEndState ==
    (pc = "done" /\ run = 2) =>
        /\ HoldsFrame("account_country", process_data(files).country)
        /\ HoldsFrame("account_series", process_data(files).series)
        /\ HoldsFrame("account_data", process_data(files).data)

\* the values of column name in the rows of table t of the target database
TargetValues(t, name) ==
    LET tab == tables[Target][t]
    IN IF tab.exists /\ \E k \in DOMAIN tab.cols : tab.cols[k].name = name
       THEN ColumnValues(tab, name)
       ELSE {}

\* C7: at every point of a run, every row of account_data has its
\* country_code in account_country and its series_code in account_series.
C7_ForeignKeysIntact ==
    /\ TargetValues("account_data", COUNTRY_CODE) \subseteq TargetValues("account_country", CODE)
    /\ TargetValues("account_data", SERIES_CODE) \subseteq TargetValues("account_series", CODE)

\* the header form of the specification: four digits, a space, and the same
\* four digits inside [YR...], with nothing before or after
YearForm(s) ==
    /\ Len(s) = 13
    /\ \A i \in 1..4 : s[i] \in Digits
    /\ SubSeq(s, 5, 8) = <<" ", "[", "Y", "R">>
    /\ SubSeq(s, 9, 12) = SubSeq(s, 1, 4)
    /\ s[13] = "]"

\* C8: a header of the form "YYYY [YRYYYY]" comes out of clean_cols as
\* year_YYYY, and a header that is not of that form is left as it is by the
\* year rule (the first select).
C8_YearRule ==
    passes >= 1 =>
        \A i \in DOMAIN dfIn :
            IF YearForm(dfIn[i])
            THEN dfClean[i] = <<"y","e","a","r","_">> \o SubSeq(dfIn[i], 1, 4)
            ELSE dfYear[i] = dfIn[i]

\* C9: header normalization is idempotent: clean_cols applied to names that
\* clean_cols produced returns those names.
C9_Idempotent == passes = 2 => dfClean = dfIn

\* C9 witness: the second application ran on names the first one had changed.
C9_Witness ==
    /\ passes = 2
    /\ dfIn # columns
    /\ \E i \in DOMAIN dfIn : Len(dfIn[i]) >= 2
    /\ dfClean = dfIn

\* the country rows process_data returns are the rows expect, in order, with
\* the code trimmed and the other fields as read
CountryRowsAre(expect) ==
    LET out == dfs.country.rows
    IN /\ Len(out) = Len(expect)
       /\ \A i \in DOMAIN expect :
            /\ out[i][1] = Trim(expect[i][1])
            /\ \A k \in 2..Len(expect[i]) : out[i][k] = expect[i][k]

NoRowDropped ==
    /\ Len(dfs.data.rows) = Len(files.data.rows)
    /\ Len(dfs.series.rows) = Len(files.series.rows)

AtLeast5NonNull(row) == Cardinality({i \in DOMAIN row : row[i] # Null}) >= 5

AtLeast5Present(row) == Cardinality({i \in DOMAIN row : row[i] \notin {Null, NaN}}) >= 5

\* C10 as stated: process_data keeps a country row exactly when it has at
\* least 5 non-null fields, and drops no row of the data or series table.
C10_NonNull ==
    dfs # NotProcessed => CountryRowsAre(SelectSeq(files.country.rows, AtLeast5NonNull)) /\ NoRowDropped

\* C10 amended: process_data keeps a country row exactly when at least 5 of
\* its fields are neither NULL nor NaN, and drops no row of the data or
\* series table.
C10_Present ==
    dfs # NotProcessed => CountryRowsAre(SelectSeq(files.country.rows, AtLeast5Present)) /\ NoRowDropped

\* C10 witness: of the three country rows the complete one is kept, the one
\* with 3 fields is dropped, and so is one with 5 non-null fields of which
\* one is NaN.
C10_Witness ==
    /\ dfs # NotProcessed
    /\ Len(dfs.country.rows) = 1
    /\ \E i \in DOMAIN files.country.rows :
          /\ AtLeast5NonNull(files.country.rows[i])
          /\ ~AtLeast5Present(files.country.rows[i])

====
